---- MODULE Spec2Model ----
(***************************************************************************)
(* Model of luakit's logging core, src/log.c: the verbosity registry       *)
(* (log_set_verbosity, log_get_verbosity), the dispatcher (_log, va_log)   *)
(* and the IPC bridge (ipc_recv_log).                                      *)
(*                                                                         *)
(* C strings are sequences of one-character strings.  "ESC" stands for the *)
(* byte 0x1b and "\n" for the newline.                                     *)
(***************************************************************************)
EXTENDS Integers, Sequences, FiniteSets

VARIABLES
    group_levels,   \* the GHashTable: group -> lvl+1; the empty map is NULL
    last_set,       \* history: group -> level of the latest log_set_verbosity
    pc,             \* position of the single thread of control
    caller,         \* who called log_get_verbosity: "get", "log", "ipc"
    group,          \* log_get_verbosity's pointer: "buf" or the literal "all"
    buf,            \* the group buffer the caller passed, as a C string
    orig,           \* content of that buffer when the call was made
    entry_levels,   \* group_levels when the call was made
    nlookups,       \* g_hash_table_lookup calls made by this lookup
    verbosity,      \* log_get_verbosity's return value, -1 before it returns
    lvl, line, fct, fmt, args,   \* va_log's parameters
    L,              \* the Lua stack of ipc_recv_log
    out,            \* what this call wrote to stderr (<<>>: nothing)
    tty,            \* isatty(log_fd) as this call saw it
    exit_status     \* -1 while the process runs

vars == <<group_levels, last_set, pc, caller, group, buf, orig, entry_levels,
          nlookups, verbosity, lvl, line, fct, fmt, args, L, out, tty,
          exit_status>>

\* ---------------------------------------------------------------- bounds

\* Entries the hash table may hold.
MaxEntries == 2
\* nlookups stops counting here (the loop itself is not bounded).
MaxLookups == 6
\* l_time() - globalconf.starttime, in whole seconds, is in 0..MaxElapsed.
MaxElapsed == 1

\* ------------------------------------------------------------- constants

EXIT_FAILURE == 1

\* common/log.h: the X-macro LOG_LEVELS, most severe first.
LOG_LEVELS == <<"fatal", "error", "warn", "info", "verbose", "debug">>

LogLevel(name) == (CHOOSE i \in 1..Len(LOG_LEVELS) : LOG_LEVELS[i] = name) - 1

LOG_LEVEL_fatal == LogLevel("fatal")
LOG_LEVEL_info == LogLevel("info")

Levels == 0..(Len(LOG_LEVELS) - 1)

ESC == "ESC"
NL == "\n"

\* --------------------------------------------------------------- strings

RECURSIVE Cat(_)
\* concatenation of a sequence of strings
Cat(ss) == IF ss = <<>> THEN <<>> ELSE Head(ss) \o Cat(Tail(ss))

\* strrchr(s, c): index of the last c in s, 0 when there is none
strrchr(s, c) ==
    IF \E i \in 1..Len(s) : s[i] = c
    THEN CHOOSE i \in 1..Len(s) : s[i] = c /\ \A j \in (i+1)..Len(s) : s[j] # c
    ELSE 0

\* strchr(s, c): index of the first c in s, 0 when there is none
strchr(s, c) ==
    IF \E i \in 1..Len(s) : s[i] = c
    THEN CHOOSE i \in 1..Len(s) : s[i] = c /\ \A j \in 1..(i-1) : s[j] # c
    ELSE 0

\* !strcmp(&s[len-n], suf) for len >= n
EndsWith(s, suf) ==
    /\ Len(s) >= Len(suf)
    /\ SubSeq(s, Len(s) - Len(suf) + 1, Len(s)) = suf

\* !strncmp(s, pre, strlen(pre))
StartsWith(s, pre) ==
    /\ Len(s) >= Len(pre)
    /\ SubSeq(s, 1, Len(pre)) = pre

S_all == <<"a", "l", "l">>
S_core == <<"c", "o", "r", "e">>
S_core_a == <<"c", "o", "r", "e", "/", "a">>
S_core_a_b == <<"c", "o", "r", "e", "/", "a", "/", "b">>
S_lua == <<"l", "u", "a">>
S_lua_m == <<"l", "u", "a", "/", "m">>
S_script_m == <<"s", "c", "r", "i", "p", "t", "/", "m">>
S_dot_c == <<".", "c">>
S_dot_lua == <<".", "l", "u", "a">>
S_dot_slash == <<".", "/">>
S_a_b_c == <<"a", "/", "b", ".", "c">>
S_m_lua == <<"m", ".", "l", "u", "a">>
S_rel_m_lua == <<".", "/", "m", ".", "l", "u", "a">>
S_x_py == <<"x", ".", "p", "y">>
S_bold == <<ESC, "[", "1", "m">>
S_7 == <<"7">>
S_pct_s == <<"%", "s">>

\* ------------------------------------------------------- the hash table

\* g_hash_table_lookup: the stored value, NULL (0) for an absent key
Lookup(tab, k) == IF k \in DOMAIN tab THEN tab[k] ELSE 0

\* g_hash_table_insert: insert or overwrite
Insert(tab, k, v) == [x \in DOMAIN tab \cup {k} |-> IF x = k THEN v ELSE tab[x]]

StoredLevel_raw(l) == l

\* GINT_TO_POINTER(lvl+1): a stored level is never NULL
StoredLevel(l) == l + 1

\* ------------------------------------------------- log_get_verbosity

SlashOf_first(s) == strchr(s, "/")

\* char *slash = strrchr(group, '/')
SlashOf(s) == strrchr(s, "/")

Truncated_keep(s, slash) == SubSeq(s, 1, slash)

\* *slash = '\0': the string now ends before the slash
Truncated(s, slash) == SubSeq(s, 1, slash - 1)

\* ------------------------------------------------- log_group_from_fct

log_group_from_fct_rel(f) ==
    IF EndsWith(f, S_dot_c)
    THEN S_core \o <<"/">> \o SubSeq(f, 1, Len(f) - 2)
    ELSE S_lua \o <<"/">> \o SubSeq(f, 1, Len(f) - 4)

\* gboolean core, lua (identifiers of four characters or more: a shorter
\* one makes &fct[len-4] point before the string)
IsCore(f) == EndsWith(f, S_dot_c)
IsLua(f) == EndsWith(f, S_dot_lua)

log_group_from_fct(f) ==
    IF IsCore(f)
    THEN S_core \o <<"/">> \o SubSeq(f, 1, Len(f) - 2)
    ELSE LET g == IF StartsWith(f, S_dot_slash)
                  THEN SubSeq(f, 3, Len(f)) ELSE f
         IN  S_lua \o <<"/">> \o SubSeq(g, 1, Len(g) - 4)

\* ------------------------------------------------------------- va_log

RECURSIVE g_strdup_vprintf(_, _)
\* printf for the directives the callers use: %s takes the next argument,
\* %% is a percent sign, anything else is copied
g_strdup_vprintf(f, ap) ==
    IF f = <<>> THEN <<>>
    ELSE IF Len(f) >= 2 /\ f[1] = "%" /\ f[2] = "s"
    THEN (IF ap = <<>> THEN <<>> ELSE Head(ap))
         \o g_strdup_vprintf(SubSeq(f, 3, Len(f)),
                             IF ap = <<>> THEN <<>> ELSE Tail(ap))
    ELSE IF Len(f) >= 2 /\ f[1] = "%" /\ f[2] = "%"
    THEN <<"%">> \o g_strdup_vprintf(SubSeq(f, 3, Len(f)), ap)
    ELSE <<f[1]>> \o g_strdup_vprintf(Tail(f), ap)

Filtered_ge(l, v) == l >= v

\* if (lvl > verbosity) return;
Filtered(l, v) == l > v

ANSI_COLOR_RESET == <<ESC, "[", "0", "m">>
ANSI_COLOR_RED == <<ESC, "[", "3", "1", "m">>
ANSI_COLOR_YELLOW == <<ESC, "[", "3", "3", "m">>
ANSI_COLOR_BG_RED == <<ESC, "[", "4", "1", "m">>

\* the switch on lvl
prefix_char(l) == <<"F", "E", "W", "I", "V", "D">>[l + 1]
style(l) ==
    CASE l = LogLevel("fatal") -> ANSI_COLOR_BG_RED
      [] l = LogLevel("error") -> ANSI_COLOR_RED
      [] l = LogLevel("warn") -> ANSI_COLOR_YELLOW
      [] OTHER -> <<>>

LOG_IND == <<" ", " ", " ", " ", " ", " ", " ", " ", " ",
             " ", " ", " ", " ", " ", " ", " ", " ", " ">>

RECURSIVE indent_lines(_)
\* g_regex_replace_literal(indent_lines_reg, msg, ..., "\n" LOG_IND, ...)
indent_lines(m) ==
    IF m = <<>> THEN <<>>
    ELSE IF Head(m) = NL THEN <<NL>> \o LOG_IND \o indent_lines(Tail(m))
    ELSE <<Head(m)>> \o indent_lines(Tail(m))

Digits == <<"0", "1", "2", "3", "4", "5", "6", "7", "8", "9">>
CsiParams == {"0", "1", "2", "3", "4", "5", "6", "7", "8", "9", ";"}

RECURSIVE SkipParams(_)
SkipParams(s) ==
    IF s # <<>> /\ Head(s) \in CsiParams THEN SkipParams(Tail(s)) ELSE s

RECURSIVE strip_ansi_escapes(_)
\* removes each ESC [ parameters final-byte sequence, in one pass
strip_ansi_escapes(s) ==
    IF s = <<>> THEN <<>>
    ELSE IF Len(s) >= 2 /\ s[1] = ESC /\ s[2] = "["
              /\ SkipParams(SubSeq(s, 3, Len(s))) # <<>>
    THEN strip_ansi_escapes(Tail(SkipParams(SubSeq(s, 3, Len(s)))))
    ELSE <<Head(s)>> \o strip_ansi_escapes(Tail(s))

\* "%#12f" of a whole number of seconds below ten
Fmt12f(t) == <<" ", " ", " ", " ", Digits[t + 1], ".",
               "0", "0", "0", "0", "0", "0">>

\* LOG_FMT "[%#12f] %c: %s:%s: %s"
LOG_FMT(t, c, f, ln, m) ==
    Cat(<<<<"[">>, Fmt12f(t), <<"]", " ">>, c, <<":", " ">>,
          f, <<":">>, ln, <<":", " ">>, m>>)

NoTtyLine_raw(t, l, f, ln, m) ==
    LOG_FMT(t, <<prefix_char(l)>>, f, ln, m) \o <<NL>>

\* the !isatty(log_fd) branch
NoTtyLine(t, l, f, ln, m) ==
    LOG_FMT(t, <<prefix_char(l)>>, f, ln, strip_ansi_escapes(m)) \o <<NL>>

\* the isatty(log_fd) branch
TtyLine(t, l, f, ln, m) ==
    Cat(<<style(l), LOG_FMT(t, <<prefix_char(l)>>, f, ln, m),
          ANSI_COLOR_RESET, <<NL>>>>)

IsFatal_le(l) == l <= LogLevel("error")

\* if (lvl == LOG_LEVEL_fatal)
IsFatal(l) == l = LOG_LEVEL_fatal

\* ------------------------------------------------------- ipc_recv_log

\* lua_tointeger(L, -4), lua_tostring(L, -3), (L, -2), (L, -1) and the
\* call _log(lvl, line, fct, "%s", msg)
IpcFrame_fmt(st) ==
    [lvl |-> st[Len(st) - 3], line |-> st[Len(st) - 2],
     fct |-> st[Len(st) - 1], fmt |-> st[Len(st)], args |-> <<>>]

IpcFrame(st) ==
    [lvl |-> st[Len(st) - 3], line |-> st[Len(st) - 2],
     fct |-> st[Len(st) - 1], fmt |-> S_pct_s, args |-> <<st[Len(st)]>>]

\* ------------------------------------------------------------- inputs

\* groups the configuration layer sets
SetGroups == {S_all, S_core, S_core_a, S_lua_m, S_script_m}

\* groups a caller looks up directly
GetGroups == SetGroups \cup {S_core_a_b, S_lua}

\* direct calls of _log: location, call-site identifier, format, arguments
DirectCalls ==
    { [line |-> S_7, fct |-> S_a_b_c,
       fmt |-> <<"n", "=", "%", "s">>, args |-> << <<"1">> >>],
      [line |-> S_7, fct |-> S_m_lua,
       fmt |-> S_pct_s, args |-> << <<"x", NL, "y">> >>],
      [line |-> S_7, fct |-> S_rel_m_lua,
       fmt |-> S_bold \o <<"h", "i">>, args |-> <<>>],
      [line |-> S_7, fct |-> S_x_py,
       fmt |-> <<"h", "i">>, args |-> <<>>] }

\* what a remote context sends after the level: location, call-site
\* identifier, message
PayloadTails ==
    { <<S_7, S_a_b_c, S_pct_s>>,
      <<S_7, S_bold \o S_m_lua, S_bold \o <<"x">>>>,
      <<S_bold \o S_7, S_m_lua, <<"x">>>> }

\* payloads as lua_deserialize_range pushes them; one has three fields
Payloads ==
    { <<l>> \o t : l \in Levels, t \in PayloadTails }
        \cup { <<LOG_LEVEL_info, S_7, S_m_lua>> }

\* ------------------------------------------------------------- the state

Idle ==
    /\ pc = "idle"
    /\ caller = "none"
    /\ group = "buf"
    /\ buf = <<>>
    /\ orig = <<>>
    /\ entry_levels = <<>>
    /\ nlookups = 0
    /\ verbosity = -1
    /\ lvl = -1
    /\ line = <<>>
    /\ fct = <<>>
    /\ fmt = <<>>
    /\ args = <<>>
    /\ L = <<>>
    /\ out = <<>>
    /\ tty = FALSE

Init ==
    /\ group_levels = <<>>
    /\ last_set = <<>>
    /\ exit_status = -1
    /\ Idle

\* void log_set_verbosity(const char *group, log_level_t lvl)
log_set_verbosity(g, l) ==
    /\ pc = "idle"
    /\ g \in DOMAIN group_levels \/ Cardinality(DOMAIN group_levels) < MaxEntries
    /\ group_levels' = Insert(group_levels, g, StoredLevel(l))
    /\ last_set' = Insert(last_set, g, l)
    /\ UNCHANGED <<pc, caller, group, buf, orig, entry_levels, nlookups,
                   verbosity, lvl, line, fct, fmt, args, L, out, tty,
                   exit_status>>

\* The call log_get_verbosity(g) by caller c, up to the loop:
\* if (!group_levels) return LOG_LEVEL_info;
EnterLookup(c, g) ==
    /\ caller' = c
    /\ group' = "buf"
    /\ buf' = g
    /\ orig' = g
    /\ entry_levels' = group_levels
    /\ nlookups' = 0
    /\ IF DOMAIN group_levels = {}
       THEN /\ verbosity' = LOG_LEVEL_info
            /\ pc' = IF c = "get" THEN "get_ret" ELSE "filter"
       ELSE /\ verbosity' = -1
            /\ pc' = "lookup"

\* a caller other than va_log calls log_get_verbosity on its own buffer
get_call(g) ==
    /\ pc = "idle"
    /\ EnterLookup("get", g)
    /\ UNCHANGED <<group_levels, last_set, lvl, line, fct, fmt, args, L, out,
                   tty, exit_status>>

\* one iteration of while (TRUE) in log_get_verbosity
lookup_step ==
    /\ pc = "lookup"
    /\ LET cur == IF group = "buf" THEN buf ELSE S_all
           v == Lookup(group_levels, cur)
           slash == SlashOf(cur)
       IN  /\ nlookups' = IF nlookups < MaxLookups THEN nlookups + 1
                          ELSE nlookups
           /\ IF v > 0
              THEN /\ verbosity' = v - 1
                   /\ pc' = IF caller = "get" THEN "get_ret" ELSE "filter"
                   /\ UNCHANGED <<group, buf>>
              ELSE /\ IF slash # 0
                      THEN /\ buf' = IF group = "buf"
                                     THEN Truncated(buf, slash) ELSE buf
                           /\ UNCHANGED group
                      ELSE /\ group' = "all"
                           /\ UNCHANGED buf
                   /\ UNCHANGED <<verbosity, pc>>
    /\ UNCHANGED <<group_levels, last_set, caller, orig, entry_levels, lvl,
                   line, fct, fmt, args, L, out, tty, exit_status>>

ToIdle ==
    /\ pc' = "idle"
    /\ caller' = "none"
    /\ group' = "buf"
    /\ buf' = <<>>
    /\ orig' = <<>>
    /\ entry_levels' = <<>>
    /\ nlookups' = 0
    /\ verbosity' = -1
    /\ lvl' = -1
    /\ line' = <<>>
    /\ fct' = <<>>
    /\ fmt' = <<>>
    /\ args' = <<>>
    /\ L' = <<>>
    /\ out' = <<>>
    /\ tty' = FALSE

\* the direct caller goes on with the level and drops its buffer
get_return ==
    /\ pc = "get_ret"
    /\ ToIdle
    /\ UNCHANGED <<group_levels, last_set, exit_status>>

\* _log and va_log up to the loop of log_get_verbosity:
\* group = log_group_from_fct(fct); log_get_verbosity(group)
EnterLog(c, fr) ==
    /\ lvl' = fr.lvl
    /\ line' = fr.line
    /\ fct' = fr.fct
    /\ fmt' = fr.fmt
    /\ args' = fr.args
    /\ IF IsCore(fr.fct) # IsLua(fr.fct)
       THEN EnterLookup(c, log_group_from_fct(fr.fct))
       ELSE \* g_assert_cmpint(core,!=,lua) fails
            /\ pc' = "aborted"
            /\ caller' = c
            /\ UNCHANGED <<group, buf, orig, entry_levels, nlookups,
                           verbosity>>

\* void _log(lvl, line, fct, fmt, ...)
log_call(l, d) ==
    /\ pc = "idle"
    /\ Len(d.fct) >= Len(S_dot_lua)
    /\ EnterLog("log", [lvl |-> l, line |-> d.line, fct |-> d.fct,
                        fmt |-> d.fmt, args |-> d.args])
    /\ UNCHANGED <<group_levels, last_set, L, out, tty, exit_status>>

\* void ipc_recv_log(ipc, lua_msg, length), up to the same loop
ipc_recv_log(payload) ==
    /\ pc = "idle"
    /\ L' = payload
    /\ IF Len(payload) = Len(<<"lvl", "line", "fct", "msg">>)
       THEN /\ Len(IpcFrame(payload).fct) >= Len(S_dot_lua)
            /\ EnterLog("ipc", IpcFrame(payload))
       ELSE \* g_assert_cmpint(n, ==, 4) fails
            /\ pc' = "aborted"
            /\ caller' = "ipc"
            /\ UNCHANGED <<group, buf, orig, entry_levels, nlookups,
                           verbosity, lvl, line, fct, fmt, args>>
    /\ UNCHANGED <<group_levels, last_set, out, tty, exit_status>>

\* va_log from g_free(group) to g_free(msg): the filter, or the write
va_log_write ==
    /\ pc = "filter"
    /\ buf' = <<>>
    /\ IF Filtered(lvl, verbosity)
       THEN /\ pc' = "ret"
            /\ UNCHANGED <<out, tty>>
       ELSE \E isatty \in BOOLEAN, t \in 0..MaxElapsed :
              LET msg == indent_lines(g_strdup_vprintf(fmt, args))
              IN  /\ tty' = isatty
                  /\ out' = IF isatty THEN TtyLine(t, lvl, fct, line, msg)
                            ELSE NoTtyLine(t, lvl, fct, line, msg)
                  /\ pc' = "written"
    /\ UNCHANGED <<group_levels, last_set, caller, group, orig, entry_levels,
                   nlookups, verbosity, lvl, line, fct, fmt, args, L,
                   exit_status>>

\* if (lvl == LOG_LEVEL_fatal) exit(EXIT_FAILURE);
va_log_exit ==
    /\ pc = "written"
    /\ IF IsFatal(lvl)
       THEN /\ pc' = "exited"
            /\ exit_status' = EXIT_FAILURE
       ELSE /\ pc' = "ret"
            /\ UNCHANGED exit_status
    /\ UNCHANGED <<group_levels, last_set, caller, group, buf, orig,
                   entry_levels, nlookups, verbosity, lvl, line, fct, fmt,
                   args, L, out, tty>>

\* va_log returns; ipc_recv_log pops its four values
log_return ==
    /\ pc = "ret"
    /\ ToIdle
    /\ UNCHANGED <<group_levels, last_set, exit_status>>

\* the steps of a call in progress
Step ==
    \/ lookup_step
    \/ get_return
    \/ va_log_write
    \/ va_log_exit
    \/ log_return

Next ==
    \/ \E g \in SetGroups, l \in Levels : log_set_verbosity(g, l)
    \/ \E g \in GetGroups : get_call(g)
    \/ \E l \in Levels, d \in DirectCalls : log_call(l, d)
    \/ \E p \in Payloads : ipc_recv_log(p)
    \/ lookup_step
    \/ get_return
    \/ va_log_write
    \/ va_log_exit
    \/ log_return

Spec == Init /\ [][Next]_vars

\* ------------------------------------------------- notions of the claims

\* g cut at each of its slashes
Ancestors(g) == { SubSeq(g, 1, i - 1) : i \in { j \in 1..Len(g) : g[j] = "/" } }

\* path depth: the number of components
Depth(g) == Cardinality({ j \in 1..Len(g) : g[j] = "/" }) + 1

\* the longest string of a non-empty set of strings of distinct lengths
Longest(S) == CHOOSE x \in S : \A y \in S : Len(y) <= Len(x)
Shortest(S) == CHOOSE x \in S : \A y \in S : Len(x) <= Len(y)

\* the levels the configuration layer has set
Configured(g) == g \in DOMAIN last_set

ConfiguredAncestors(g) == { a \in Ancestors(g) : Configured(a) }

\* the effective threshold of a group: its own level, else that of its
\* nearest configured ancestor, else "all", else info
Resolve(g) ==
    IF Configured(g) THEN last_set[g]
    ELSE IF ConfiguredAncestors(g) # {}
    THEN last_set[Longest(ConfiguredAncestors(g))]
    ELSE IF Configured(S_all) THEN last_set[S_all]
    ELSE LogLevel("info")

\* a lookup is in progress or has just returned to its caller
InLookup == pc = "lookup"
LookupReturned == pc \in {"get_ret", "filter"}

\* a call of _log or ipc_recv_log from a valid call site
InLogCall == caller \in {"log", "ipc"} /\ pc # "aborted"
LogCallDone == InLogCall /\ pc \in {"written", "ret", "exited"}

HasAnsi(s) == \E i \in 1..(Len(s) - 1) : s[i] = ESC /\ s[i + 1] = "["

\* ---------------------------------------------------------------- claims

\* C1: when neither g, nor an ancestor of g, nor "all" is configured, the
\* lookup of g makes at most Depth(g) + 1 table lookups and returns info,
\* also when other groups are configured.
C1_UnconfiguredReturnsInfo ==
    (/\ InLookup \/ LookupReturned
     /\ ~Configured(orig)
     /\ ConfiguredAncestors(orig) = {}
     /\ ~Configured(S_all))
    => /\ nlookups <= Depth(orig) + 1
       /\ LookupReturned => verbosity = LogLevel("info")

\* C2: when g is not configured but an ancestor of g or "all" is, the
\* lookup returns the level of the longest configured ancestor, and that
\* of "all" only when no ancestor is configured; it takes at most
\* Depth(g) + 1 table lookups.
C2_LongestAncestorWins ==
    (/\ InLookup \/ LookupReturned
     /\ ~Configured(orig)
     /\ ConfiguredAncestors(orig) # {} \/ Configured(S_all))
    => /\ nlookups <= Depth(orig) + 1
       /\ LookupReturned =>
            verbosity = IF ConfiguredAncestors(orig) # {}
                        THEN last_set[Longest(ConfiguredAncestors(orig))]
                        ELSE last_set[S_all]

C2_Witness ==
    /\ pc = "get_ret"
    /\ orig = S_core_a_b
    /\ Configured(S_core_a)
    /\ Configured(S_core)
    /\ last_set[S_core_a] = LogLevel("debug")
    /\ last_set[S_core] = LogLevel("error")
    /\ verbosity = LogLevel("debug")

\* the table holds, for every group set, the latest level set on it, and
\* the lookup of such a group returns that level at the first table lookup
LastLevelKept ==
    /\ DOMAIN group_levels = DOMAIN last_set
    /\ \A g \in DOMAIN last_set : Lookup(group_levels, g) - 1 = last_set[g]
    /\ (InLookup \/ LookupReturned) /\ Configured(orig)
       => /\ nlookups <= 1
          /\ LookupReturned => verbosity = last_set[orig] /\ nlookups = 1

\* C3: the lookup of a group that was set returns the level of the latest
\* set on that group, for each of the six levels; a set on one group
\* leaves what the table holds for every other group, and a set that
\* repeats the latest one on its group changes nothing.
C3_LastWriteWins ==
    /\ []LastLevelKept
    /\ [][ \A g \in SetGroups, l \in Levels :
             log_set_verbosity(g, l)
             => /\ Lookup(group_levels', g) - 1 = l
                /\ \A h \in SetGroups \ {g} :
                     Lookup(group_levels', h) = Lookup(group_levels, h)
                /\ Configured(g) /\ last_set[g] = l => UNCHANGED vars
         ]_vars

C3_Witness ==
    /\ pc = "get_ret"
    /\ orig = S_core_a
    /\ Configured(S_core_a)
    /\ last_set[S_core_a] = LogLevel("fatal")
    /\ Configured(S_core)
    /\ last_set[S_core] = LogLevel("warn")
    /\ verbosity = LogLevel("fatal")

\* C4: a call at level l from a valid call site has written a record
\* exactly when l is at most the effective threshold of the call site's
\* group; a filtered call has returned with nothing written, the process
\* running and the registry as it was.
C4_Filtering ==
    /\ InLogCall /\ out # <<>> => lvl <= Resolve(orig)
    /\ LogCallDone =>
         /\ out # <<>> <=> lvl <= Resolve(orig)
         /\ out = <<>> => /\ pc = "ret"
                          /\ exit_status = -1
                          /\ group_levels = entry_levels

C4_Witness ==
    /\ pc = "ret"
    /\ caller = "log"
    /\ out = <<>>
    /\ orig = S_core_a_b
    /\ Configured(S_core_a)
    /\ last_set[S_core_a] = LogLevel("error")
    /\ lvl = LogLevel("warn")

\* C5: the process terminates only right after the write of a fatal
\* record, with a non-zero status and the record already on the stream;
\* after a fatal record is written the only step is the termination; after
\* any other record is written the call returns and the process runs on.
C5_FatalOrdering ==
    [][ /\ pc' = "exited" /\ pc # "exited"
           => /\ pc = "written"
              /\ lvl = LogLevel("fatal")
              /\ out # <<>>
              /\ out' = out
              /\ exit_status = -1
              /\ exit_status' # 0
              /\ exit_status' # -1
        /\ pc = "written" /\ lvl = LogLevel("fatal") => pc' = "exited"
        /\ pc = "written" /\ lvl # LogLevel("fatal")
           => pc' = "ret" /\ exit_status' = -1
        /\ pc' = "written" /\ pc # "written"
           => exit_status = -1 /\ exit_status' = -1 /\ out' # <<>>
      ]_vars

C5_Witness ==
    /\ pc = "exited"
    /\ lvl = LogLevel("fatal")
    /\ out # <<>>
    /\ exit_status = EXIT_FAILURE

\* the width of "[%#12f] %c: ", where the call-site identifier starts
HeadLen == Len(LOG_FMT(0, <<"I">>, <<>>, <<>>, <<>>)) - Len(<<":", ":", " ">>)

\* what follows "fct:line: " in a line written to a stream that is no
\* terminal
MessagePart(o) ==
    SubSeq(o, HeadLen + Len(fct) + Len(line) + Len(<<":", ":", " ">>) + 1,
           Len(o))

\* C6, as stated: a line written to a stream that is no terminal holds no
\* ANSI escape sequence anywhere.
C6_NoEscapeInLine ==
    InLogCall /\ out # <<>> /\ ~tty => ~HasAnsi(out)

\* C6, amended: in a line written to a stream that is no terminal, the
\* call-site identifier and the location stand as they were passed and
\* the message after them holds no ANSI escape sequence.
C6_MessageStripped ==
    InLogCall /\ out # <<>> /\ ~tty
    => /\ SubSeq(out, HeadLen + 1, HeadLen + Len(fct)) = fct
       /\ SubSeq(out, HeadLen + Len(fct) + 2,
                 HeadLen + Len(fct) + 1 + Len(line)) = line
       /\ ~HasAnsi(MessagePart(out))

C6_Witness ==
    /\ pc = "written"
    /\ ~tty
    /\ HasAnsi(fct)
    /\ HasAnsi(args[1])
    /\ HasAnsi(out)
    /\ ~HasAnsi(MessagePart(out))

\* C7: ipc_recv_log runs va_log on the frame of the direct call
\* _log(level, location, callsite_id, "%s", message) of the payload's four
\* fields: the group looked up is the one of the remote call-site
\* identifier, the filter is the one of that group, and a written line
\* ends with the message as it was sent (re-indented, and stripped when
\* the stream is no terminal), whatever directives it holds.
C7_IpcForwarding ==
    caller = "ipc" /\ pc # "aborted"
    => /\ lvl = L[1]
       /\ line = L[2]
       /\ fct = L[3]
       /\ fmt = S_pct_s
       /\ args = <<L[4]>>
       /\ orig = log_group_from_fct(L[3])
       /\ LogCallDone => (out # <<>> <=> L[1] <= Resolve(orig))
       /\ out # <<>> /\ ~tty
          => MessagePart(out) = strip_ansi_escapes(indent_lines(L[4])) \o <<NL>>
       /\ out # <<>> /\ tty
          => SubSeq(out,
                    Len(out) - Len(indent_lines(L[4])) - Len(ANSI_COLOR_RESET),
                    Len(out) - Len(ANSI_COLOR_RESET) - 1) = indent_lines(L[4])

C7_Witness ==
    /\ caller = "ipc"
    /\ pc = "written"
    /\ L[4] = S_pct_s
    /\ L[3] = S_a_b_c
    /\ tty

\* C8, as stated: when a lookup returns, the registry is as it was and the
\* caller's group string has its original content.
C8_CallerStringIntact ==
    LookupReturned => group_levels = entry_levels /\ buf = orig

\* C8, amended: a lookup leaves the registry as it was, and cuts the
\* caller's group string in place at its slashes: when it returns, the
\* string holds the longest configured one among g and its ancestors, or
\* the first component of g when none is configured, and is g itself when
\* the registry was never created.
C8_TruncatesInPlace ==
    /\ InLookup \/ LookupReturned
       => /\ group_levels = entry_levels
          /\ buf \in Ancestors(orig) \cup {orig}
    /\ LookupReturned
       => buf = IF DOMAIN entry_levels = {} THEN orig
                ELSE IF Configured(orig) THEN orig
                ELSE IF ConfiguredAncestors(orig) # {}
                THEN Longest(ConfiguredAncestors(orig))
                ELSE Shortest(Ancestors(orig) \cup {orig})

C8_Witness ==
    /\ pc = "get_ret"
    /\ caller = "get"
    /\ orig = S_core_a_b
    /\ buf = S_core_a
    /\ group_levels = entry_levels

\* the group of a call-site identifier, scripts filed under directory dir
GroupOf(f, dir) ==
    IF EndsWith(f, S_dot_c)
    THEN Cat(<<S_core, <<"/">>, SubSeq(f, 1, Len(f) - Len(S_dot_c))>>)
    ELSE LET name == SubSeq(f, 1, Len(f) - Len(S_dot_lua))
         IN  Cat(<<dir, <<"/">>,
                   IF StartsWith(name, S_dot_slash)
                   THEN SubSeq(name, Len(S_dot_slash) + 1, Len(name))
                   ELSE name>>)

S_script == <<"s", "c", "r", "i", "p", "t">>

\* C9, as stated: the group of an identifier ending in ".c" is "core/" and
\* the identifier without the suffix, that of one ending in ".lua" is
\* "script/" and the identifier without the suffix and a leading "./"; the
\* threshold of that group is the one applied.
C9_ScriptGroup ==
    InLogCall
    => /\ orig = GroupOf(fct, S_script)
       /\ LogCallDone => (out # <<>> <=> lvl <= Resolve(GroupOf(fct, S_script)))

\* C9, amended: as stated, with "lua/" in the place of "script/".
C9_LuaGroup ==
    InLogCall
    => /\ orig = GroupOf(fct, S_lua)
       /\ LogCallDone => (out # <<>> <=> lvl <= Resolve(GroupOf(fct, S_lua)))

C9_Witness ==
    /\ pc = "ret"
    /\ fct = S_rel_m_lua
    /\ orig = S_lua_m
    /\ Configured(S_lua_m)
    /\ last_set[S_lua_m] = LogLevel("error")
    /\ Configured(S_script_m)
    /\ last_set[S_script_m] = LogLevel("debug")
    /\ lvl = LogLevel("warn")
    /\ out = <<>>

\* C10: a call at level fatal from a valid call site is never filtered
\* and never returns to its caller, the process terminates only with the
\* record written, and the call never stops short of the termination:
\* until the process has terminated it has a step to take that moves it
\* on.
C10_FatalTerminates ==
    InLogCall /\ lvl = LogLevel("fatal")
    => /\ pc # "ret"
       /\ pc = "exited" => out # <<>>
       /\ pc = "exited" \/ ENABLED <<Step>>_vars

====
